---- MODULE Spec2Model ----
(***************************************************************************)
(* Price tracker (src/tracker.py): a command-line tool.  Every invocation  *)
(* of main() is one process: it constructs a PriceTracker, which loads the *)
(* persisted document, runs one command against the in-memory store and    *)
(* exits.  A step of this model is one such invocation.                    *)
(*                                                                         *)
(* The store is a Python dict (insertion ordered), modelled as a sequence  *)
(* of entries [key, value], value = [name, url, prices]; prices is a       *)
(* sequence of observations [date, price].  Prices are floats in the       *)
(* program; here they are non-negative integers and every comparison of a  *)
(* quotient is done exactly by cross-multiplication.                       *)
(***************************************************************************)
EXTENDS Integers, Sequences, FiniteSets, TLC

VARIABLES
    doc,        \* the persisted document (DATA_FILE)
    products,   \* self.products of the process that ran last, at its exit
    last        \* what the last invocation was given, printed and returned

vars == <<doc, products, last>>

\* ---- bounds ------------------------------------------------------------
MaxPrice == 1        \* fetched prices range over 0..MaxPrice
MaxObs == 2          \* check is not invoked on a product with MaxObs prices
MaxTrendLen == 4     \* longest price list handed to _calculate_trend on its own
MaxTrendPrice == 11  \* the prices of those lists range over 8..MaxTrendPrice
MaxTextLen == 4      \* longest text drawn from TextChars
MaxElements == 2     \* most elements of a page

Names == {"a", "b"}
URLs == {"u1", "u2"}
Prices == 0..MaxPrice
Thresholds == {-100, 0, 50, 150}
TrendPrices == 8..MaxTrendPrice

\* Python's None, as returned by _scrape_price when no price was obtained.
None == -1

\* datetime.now().isoformat(): no operation branches on the value of a
\* timestamp, so every timestamp is the same opaque token.
Timestamp == "ts"

\* ---- the dict self.products -------------------------------------------
EmptyStore == <<>>

Keys(d) == {d[i].key : i \in 1..Len(d)}

IndexOf(d, k) == CHOOSE i \in 1..Len(d) : d[i].key = k

Get(d, k) == d[IndexOf(d, k)].value

\* d[k] = v: replaces the value in place when k is a key, appends otherwise.
SetItem(d, k, v) ==
    IF k \in Keys(d)
    THEN [d EXCEPT ![IndexOf(d, k)].value = v]
    ELSE Append(d, [key |-> k, value |-> v])

PriceList(obs) == [i \in 1..Len(obs) |-> obs[i].price]

\* ---- persistence -------------------------------------------------------
\* The document is missing, is not parseable as JSON, or is JSON text.  The
\* text is modelled as the sequence of members json.dump writes, in dict
\* order: <<key, name, url, prices>>, prices being the array of <<date,
\* price>> pairs.
ObsItem(o) == <<o.date, o.price>>

ProductItem(e) ==
    <<e.key, e.value.name, e.value.url,
      [j \in 1..Len(e.value.prices) |-> ObsItem(e.value.prices[j])]>>

\* json.dump that leaves out the products without a price.
json_dump_priced(d) ==
    LET priced == SelectSeq(d, LAMBDA e : e.value.prices # <<>>)
    IN [i \in 1..Len(priced) |-> ProductItem(priced[i])]

json_dump(d) == [i \in 1..Len(d) |-> ProductItem(d[i])]

\* The parser: every member becomes an entry (a repeated key replaces the
\* earlier value, as in a JSON object).
ParseObs(t) == [date |-> t[1], price |-> t[2]]

ParseItem(d, l) ==
    SetItem(d, l[1],
        [name |-> l[2], url |-> l[3],
         prices |-> [j \in 1..Len(l[4]) |-> ParseObs(l[4][j])]])

RECURSIVE ParseItems(_, _)
ParseItems(text, d) ==
    IF text = <<>> THEN d
    ELSE ParseItems(Tail(text), ParseItem(d, Head(text)))

json_load(text) == ParseItems(text, EmptyStore)

MissingDoc == [kind |-> "missing", text |-> <<>>]
MalformedDoc == [kind |-> "malformed", text |-> <<>>]

\* _load_data that resets a corrupted document without a word.
load_data_silent(file) ==
    IF file.kind = "json"
    THEN [products |-> json_load(file.text), warned |-> FALSE]
    ELSE [products |-> EmptyStore, warned |-> FALSE]

\* _load_data: the store, and whether the corruption warning was printed.
_load_data(file) ==
    IF file.kind = "missing"
    THEN [products |-> EmptyStore, warned |-> FALSE]
    ELSE IF file.kind = "malformed"
    THEN [products |-> EmptyStore, warned |-> TRUE]
    ELSE [products |-> json_load(file.text), warned |-> FALSE]

\* _save_data: the document after the whole store is written.
_save_data(d) == [kind |-> "json", text |-> json_dump(d)]

\* ---- fetching ----------------------------------------------------------
\* What one fetch of a URL yields: a request or parse error, a page in which
\* no selector yields a number, or a page whose first parseable number is
\* price.
Responses ==
    {[kind |-> "error", price |-> 0], [kind |-> "nomatch", price |-> 0]}
    \cup {[kind |-> "found", price |-> p] : p \in Prices}

\* No request was made.
NoResponse == [kind |-> "none", price |-> 0]

_scrape_price(r) == IF r.kind = "found" THEN r.price ELSE None

\* ---- add ---------------------------------------------------------------
\* _add_price_entry that assigns the list instead of appending to it.
add_price_entry_assign(d, name, price) ==
    [d EXCEPT ![IndexOf(d, name)].value.prices =
        <<[date |-> Timestamp, price |-> price]>>]

_add_price_entry(d, name, price) ==
    [d EXCEPT ![IndexOf(d, name)].value.prices =
        Append(@, [date |-> Timestamp, price |-> price])]

\* add_product without the test for an existing name.
add_product_overwrite(d, url, name, price) ==
    LET d1 == SetItem(d, name, [name |-> name, url |-> url, prices |-> <<>>])
        d2 == IF price # None THEN _add_price_entry(d1, name, price) ELSE d1
    IN [products |-> d2, ret |-> TRUE, saved |-> TRUE]

\* add_product that gives up, without creating the product, when no price
\* was obtained.
add_product_needs_price(d, url, name, price) ==
    IF name \in Keys(d) \/ price = None
    THEN [products |-> d, ret |-> FALSE, saved |-> FALSE]
    ELSE LET d1 == SetItem(d, name,
                       [name |-> name, url |-> url, prices |-> <<>>])
         IN [products |-> _add_price_entry(d1, name, price),
             ret |-> TRUE, saved |-> TRUE]

\* add_product: the store afterwards, the return value and whether
\* _save_data was called.  price is the result of _scrape_price(url).
add_product(d, url, name, price) ==
    IF name \in Keys(d)
    THEN [products |-> d, ret |-> FALSE, saved |-> FALSE]
    ELSE LET d1 == SetItem(d, name,
                       [name |-> name, url |-> url, prices |-> <<>>])
             d2 == IF price # None THEN _add_price_entry(d1, name, price)
                   ELSE d1
         IN [products |-> d2, ret |-> TRUE, saved |-> TRUE]

\* ---- check -------------------------------------------------------------
\* The loop of check_all from entry i on.  scraped[i] is the result of
\* _scrape_price for the i-th product.  The percentage of the change divides
\* by the previous price: a previous price of 0 raises ZeroDivisionError,
\* which nothing catches.
RECURSIVE CheckLoop(_, _, _, _)
CheckLoop(d, i, scraped, updated) ==
    IF i > Len(d)
    THEN [products |-> d, updated |-> updated, raised |-> FALSE]
    ELSE IF scraped[i] # None
    THEN LET d1 == _add_price_entry(d, d[i].key, scraped[i])
             ps == d1[i].value.prices
         IN IF Len(ps) > 1 /\ ps[Len(ps) - 1].price = 0
            THEN [products |-> d1, updated |-> updated, raised |-> TRUE]
            ELSE CheckLoop(d1, i + 1, scraped, updated + 1)
    ELSE CheckLoop(d, i + 1, scraped, updated)

check_all(d, scraped) ==
    IF d = EmptyStore
    THEN [products |-> d, ret |-> 0, saved |-> FALSE, raised |-> FALSE]
    ELSE LET r == CheckLoop(d, 1, scraped, 0)
         IN [products |-> r.products, ret |-> r.updated,
             saved |-> ~r.raised, raised |-> r.raised]

\* ---- trend ------------------------------------------------------------
Min2(a, b) == IF a < b THEN a ELSE b

\* prices[-window:]
LastN(s, window) == SubSeq(s, Len(s) - window + 1, Len(s))

\* _calculate_trend over the whole list.
calculate_trend_all(prices) ==
    IF Len(prices) < 2 THEN "Insufficient data"
    ELSE LET recent_prices == PriceList(prices)
             increases == Cardinality({i \in 2..Len(recent_prices) :
                              recent_prices[i] > recent_prices[i - 1]})
             decreases == Cardinality({i \in 2..Len(recent_prices) :
                              recent_prices[i] < recent_prices[i - 1]})
         IN IF increases > decreases THEN "Rising"
            ELSE IF decreases > increases THEN "Falling"
            ELSE "Stable"

_calculate_trend(prices) ==
    IF Len(prices) < 2 THEN "Insufficient data"
    ELSE LET window == Min2(3, Len(prices))
             recent_prices == PriceList(LastN(prices, window))
             increases == Cardinality({i \in 2..Len(recent_prices) :
                              recent_prices[i] > recent_prices[i - 1]})
             decreases == Cardinality({i \in 2..Len(recent_prices) :
                              recent_prices[i] < recent_prices[i - 1]})
         IN IF increases > decreases THEN "Rising"
            ELSE IF decreases > increases THEN "Falling"
            ELSE "Stable"

\* ---- list --------------------------------------------------------------
\* The Trend column of list_products, one cell per product.
list_products(d) ==
    [i \in 1..Len(d) |->
        IF d[i].value.prices # <<>>
        THEN _calculate_trend(d[i].value.prices)
        ELSE "N/A"]

\* ---- history -----------------------------------------------------------
\* show_history divides every change by the previous price, and the overall
\* change by the first price.
show_history(d, name) ==
    IF name \notin Keys(d)
    THEN [found |-> FALSE, raised |-> FALSE, trends |-> <<>>]
    ELSE LET prices == Get(d, name).prices IN
         IF prices = <<>>
         THEN [found |-> TRUE, raised |-> FALSE, trends |-> <<>>]
         ELSE IF \E i \in 2..Len(prices) : prices[i - 1].price = 0
         THEN [found |-> TRUE, raised |-> TRUE, trends |-> <<>>]
         ELSE [found |-> TRUE, raised |-> FALSE,
               trends |-> <<_calculate_trend(prices)>>]

\* ---- stats -------------------------------------------------------------
RECURSIVE SeqSum(_)
SeqSum(s) == IF s = <<>> THEN 0 ELSE Head(s) + SeqSum(Tail(s))

SeqMin(s) == CHOOSE x \in {s[i] : i \in 1..Len(s)} :
                 \A i \in 1..Len(s) : x <= s[i]

SeqMax(s) == CHOOSE x \in {s[i] : i \in 1..Len(s)} :
                 \A i \in 1..Len(s) : x >= s[i]

\* prices.index(x): the first position holding x.
FirstIndex(s, x) == CHOOSE i \in 1..Len(s) :
                        s[i] = x /\ \A j \in 1..(i - 1) : s[j] # x

Squares(s) == [i \in 1..Len(s) |-> s[i] * s[i]]

\* _show_product_stats.  A percentage is the fraction <<numerator,
\* denominator>>; volatility_pct is a square root and is carried by its
\* square.  skipped: the product has no price data.  raised: the spread
\* percentage divides by min_price, and ZeroDivisionError escapes when
\* min_price is 0 (after the Price Range block and the Overall line were
\* printed).
_show_product_stats(product) ==
    IF product.prices = <<>>
    THEN [skipped |-> TRUE, raised |-> FALSE, n |-> 0, first_price |-> 0,
          latest_price |-> 0, min_price |-> 0, max_price |-> 0,
          total |-> 0, total_change |-> 0, total_change_pct |-> <<0, 1>>,
          min_idx |-> 0, max_idx |-> 0, volatility_pct_sq |-> <<0, 1>>,
          spread |-> 0, spread_pct |-> <<0, 1>>, trend |-> ""]
    ELSE LET prices == PriceList(product.prices)
             n == Len(prices)
             first_price == prices[1]
             latest_price == prices[n]
             min_price == SeqMin(prices)
             max_price == SeqMax(prices)
             total == SeqSum(prices)
             total_change == latest_price - first_price
             total_change_pct ==
                 IF first_price # 0 THEN <<total_change * 100, first_price>>
                 ELSE <<0, 1>>
             volatility_pct_sq ==
                 IF n > 1
                 THEN IF total # 0
                      THEN <<(n * SeqSum(Squares(prices)) - total * total)
                                 * 10000, total * total>>
                      ELSE <<0, 1>>
                 ELSE <<0, 1>>
             raised == min_price = 0
         IN [skipped |-> FALSE, raised |-> raised, n |-> n,
             first_price |-> first_price, latest_price |-> latest_price,
             min_price |-> min_price, max_price |-> max_price,
             total |-> total, total_change |-> total_change,
             total_change_pct |-> total_change_pct,
             min_idx |-> FirstIndex(prices, min_price),
             max_idx |-> FirstIndex(prices, max_price),
             volatility_pct_sq |-> volatility_pct_sq,
             spread |-> max_price - min_price,
             spread_pct |-> IF raised THEN <<0, 0>>
                            ELSE <<(max_price - min_price) * 100, min_price>>,
             trend |-> IF raised THEN ""
                       ELSE _calculate_trend(product.prices)]

\* The loop of show_stats over all products from entry i on: it stops at the
\* first product whose statistics raise.
RECURSIVE StatsLoop(_, _, _)
StatsLoop(d, i, out) ==
    IF i > Len(d) THEN [raised |-> FALSE, stats |-> out]
    ELSE LET st == _show_product_stats(d[i].value) IN
         IF st.raised THEN [raised |-> TRUE, stats |-> Append(out, st)]
         ELSE StatsLoop(d, i + 1, Append(out, st))

\* show_stats(name); name = "" is the command without a name.
show_stats(d, name) ==
    IF name # ""
    THEN IF name \notin Keys(d)
         THEN [found |-> FALSE, raised |-> FALSE, stats |-> <<>>]
         ELSE LET st == _show_product_stats(Get(d, name))
              IN [found |-> TRUE, raised |-> st.raised, stats |-> <<st>>]
    ELSE LET r == StatsLoop(d, 1, <<>>)
         IN [found |-> TRUE, raised |-> r.raised, stats |-> r.stats]

\* ---- alerts ------------------------------------------------------------
\* The comparison of check_alerts with > for >=.
DropExceeds(previous_price, latest_price, drop_threshold) ==
    (previous_price - latest_price) * 100 > drop_threshold * previous_price

\* drop = ((previous_price - latest_price) / previous_price) * 100, and
\* drop >= drop_threshold, for previous_price > 0.
DropAtLeast(previous_price, latest_price, drop_threshold) ==
    (previous_price - latest_price) * 100 >= drop_threshold * previous_price

Previous(prices) == prices[Len(prices) - 1].price

Latest(prices) == prices[Len(prices)].price

\* The loop of check_alerts from entry i on; a previous price of 0 raises
\* ZeroDivisionError.
RECURSIVE AlertLoop(_, _, _, _)
AlertLoop(d, i, drop_threshold, alerts) ==
    IF i > Len(d) THEN [raised |-> FALSE, alerts |-> alerts]
    ELSE LET prices == d[i].value.prices IN
         IF Len(prices) < 2
         THEN AlertLoop(d, i + 1, drop_threshold, alerts)
         ELSE IF Previous(prices) = 0
         THEN [raised |-> TRUE, alerts |-> <<>>]
         ELSE IF DropAtLeast(Previous(prices), Latest(prices), drop_threshold)
         THEN AlertLoop(d, i + 1, drop_threshold, Append(alerts, d[i].key))
         ELSE AlertLoop(d, i + 1, drop_threshold, alerts)

\* check_alerts: the names printed under PRICE DROP ALERTS.
check_alerts(d, drop_threshold) ==
    IF d = EmptyStore THEN [raised |-> FALSE, alerts |-> <<>>]
    ELSE AlertLoop(d, 1, drop_threshold, <<>>)

\* ---- the record of an invocation --------------------------------------
Blank ==
    [op |-> "none", name |-> "", url |-> "", threshold |-> 0,
     exit |-> "ok", warned |-> FALSE, loaded |-> EmptyStore,
     added |-> FALSE, updated |-> 0, responses |-> <<>>,
     trends |-> <<>>, alerts |-> <<>>, stats |-> <<>>, found |-> FALSE]

ExitOf(raised) == IF raised THEN "crash" ELSE "ok"

\* ---- commands: one invocation of main() each ---------------------------
AddCmd ==
    LET ld == _load_data(doc) IN
    \E url \in URLs, name \in Names :
        \* the page is fetched only when the name is new
        \E r \in IF name \in Keys(ld.products) THEN {NoResponse}
                 ELSE Responses :
            LET res == add_product(ld.products, url, name, _scrape_price(r))
            IN /\ products' = res.products
               /\ doc' = IF res.saved THEN _save_data(res.products) ELSE doc
               /\ last' = [Blank EXCEPT !.op = "add", !.name = name,
                              !.url = url, !.warned = ld.warned,
                              !.loaded = ld.products, !.added = res.ret,
                              !.responses = IF r = NoResponse THEN <<>>
                                            ELSE <<r>>]

CheckCmd ==
    LET ld == _load_data(doc) IN
    /\ \A i \in 1..Len(ld.products) :
           Len(ld.products[i].value.prices) < MaxObs
    /\ \E rs \in [1..Len(ld.products) -> Responses] :
        LET scraped == [i \in 1..Len(ld.products) |-> _scrape_price(rs[i])]
            res == check_all(ld.products, scraped)
        IN /\ products' = res.products
           /\ doc' = IF res.saved THEN _save_data(res.products) ELSE doc
           /\ last' = [Blank EXCEPT !.op = "check", !.warned = ld.warned,
                          !.loaded = ld.products,
                          !.exit = ExitOf(res.raised),
                          !.updated = res.ret, !.responses = rs]

ListCmd ==
    LET ld == _load_data(doc) IN
    /\ products' = ld.products
    /\ last' = [Blank EXCEPT !.op = "list", !.warned = ld.warned,
                   !.loaded = ld.products,
                   !.trends = list_products(ld.products)]
    /\ UNCHANGED doc

HistoryCmd ==
    LET ld == _load_data(doc) IN
    \E name \in Names :
        LET res == show_history(ld.products, name)
        IN /\ products' = ld.products
           /\ last' = [Blank EXCEPT !.op = "history", !.name = name,
                          !.warned = ld.warned, !.loaded = ld.products,
                          !.found = res.found,
                          !.exit = ExitOf(res.raised), !.trends = res.trends]
           /\ UNCHANGED doc

StatsCmd ==
    LET ld == _load_data(doc) IN
    \E name \in Names \cup {""} :
        LET res == show_stats(ld.products, name)
        IN /\ products' = ld.products
           /\ last' = [Blank EXCEPT !.op = "stats", !.name = name,
                          !.warned = ld.warned, !.loaded = ld.products,
                          !.found = res.found,
                          !.exit = ExitOf(res.raised), !.stats = res.stats]
           /\ UNCHANGED doc

AlertCmd ==
    LET ld == _load_data(doc) IN
    \E drop \in Thresholds :
        LET res == check_alerts(ld.products, drop)
        IN /\ products' = ld.products
           /\ last' = [Blank EXCEPT !.op = "alert", !.threshold = drop,
                          !.warned = ld.warned, !.loaded = ld.products,
                          !.exit = ExitOf(res.raised), !.alerts = res.alerts]
           /\ UNCHANGED doc

Init ==
    /\ doc \in {MissingDoc, MalformedDoc}
    /\ products = EmptyStore
    /\ last = Blank

Next ==
    \/ AddCmd
    \/ CheckCmd
    \/ ListCmd
    \/ HistoryCmd
    \/ StatsCmd
    \/ AlertCmd

Spec == Init /\ [][Next]_vars

\* ---- _calculate_trend on its own --------------------------------------
\* The price lists of length 0..MaxTrendLen over TrendPrices.
TrendInputs ==
    UNION {[1..n -> {[date |-> Timestamp, price |-> p] : p \in TrendPrices}] :
              n \in 0..MaxTrendLen}

TrendInit ==
    /\ doc = MissingDoc
    /\ \E prices \in TrendInputs :
           products = <<[key |-> "a",
                         value |-> [name |-> "a", url |-> "u1",
                                    prices |-> prices]]>>
    /\ last = Blank

ApplyTrend ==
    /\ last.op = "none"
    /\ last' = [Blank EXCEPT !.op = "trend",
                   !.trends = <<_calculate_trend(products[1].value.prices)>>]
    /\ UNCHANGED <<doc, products>>

TrendNext == ApplyTrend

SpecTrend == TrendInit /\ [][TrendNext]_vars

\* ---- _extract_price_from_text ------------------------------------------
\* A text is a sequence of characters.  A float is carried exactly, as the
\* number of units of 10^-FractionDigits it holds (a digit and a point come
\* before a fraction, so no text of the model has more fraction digits);
\* None stands for Python's None as above.
DigitChars == <<"0", "1", "2", "3", "4", "5", "6", "7", "8", "9">>

IsDigit(c) == \E v \in 1..Len(DigitChars) : DigitChars[v] = c

DigitValue(c) == (CHOOSE v \in 1..Len(DigitChars) : DigitChars[v] = c) - 1

RECURSIVE Pow10(_)
Pow10(k) == IF k = 0 THEN 1 ELSE 10 * Pow10(k - 1)

FractionDigits == MaxTextLen - 2

Unit == Pow10(FractionDigits)

\* text.replace(c, '')
Remove(text, c) == SelectSeq(text, LAMBDA x : x # c)

\* text.strip()
RECURSIVE LStrip(_)
LStrip(text) ==
    IF text # <<>> /\ Head(text) = " " THEN LStrip(Tail(text)) ELSE text

RECURSIVE RStrip(_)
RStrip(text) ==
    IF text # <<>> /\ text[Len(text)] = " "
    THEN RStrip(SubSeq(text, 1, Len(text) - 1))
    ELSE text

Strip(text) == RStrip(LStrip(text))

\* The end of the longest run of digits of text that starts at position i
\* (i - 1 when text[i] is no digit): the greedy \d* of the pattern.
RECURSIVE DigitsEnd(_, _)
DigitsEnd(text, i) ==
    IF i <= Len(text) /\ IsDigit(text[i]) THEN DigitsEnd(text, i + 1)
    ELSE i - 1

\* re.search(r'(\d+\.?\d*)', text): group 1 of the leftmost match, or <<>>
\* when nothing matches (a match is never empty).
re_search(text) ==
    IF \A i \in 1..Len(text) : ~IsDigit(text[i]) THEN <<>>
    ELSE LET start == CHOOSE i \in 1..Len(text) :
                          /\ IsDigit(text[i])
                          /\ \A j \in 1..(i - 1) : ~IsDigit(text[j])
             whole == DigitsEnd(text, start)
             stop == IF whole < Len(text) /\ text[whole + 1] = "."
                     THEN DigitsEnd(text, whole + 2)
                     ELSE whole
         IN SubSeq(text, start, stop)

\* The value of a run of digits.
RECURSIVE DecimalValue(_)
DecimalValue(digits) ==
    IF digits = <<>> THEN 0
    ELSE 10 * DecimalValue(SubSeq(digits, 1, Len(digits) - 1))
         + DigitValue(digits[Len(digits)])

\* float(s) for s = digits, digits "." or digits "." digits.
float(s) ==
    LET whole == DigitsEnd(s, 1)
        fraction == SubSeq(s, whole + 2, Len(s))
    IN DecimalValue(SubSeq(s, 1, whole)) * Unit
       + DecimalValue(fraction) * Pow10(FractionDigits - Len(fraction))

\* _extract_price_from_text that leaves the thousands separators in.
extract_price_keep_commas(text) ==
    LET t1 == Strip(Remove(Remove(Remove(text, "$"), "£"), "€"))
        match == re_search(t1)
    IN IF match # <<>> THEN float(match) ELSE None

_extract_price_from_text(text) ==
    LET t1 == Remove(Remove(Remove(text, "$"), "£"), "€")
        t2 == Strip(Remove(t1, ","))
        match == re_search(t2)
    IN IF match # <<>> THEN float(match) ELSE None

\* ---- _extract_price_from_text on its own ------------------------------
TextChars == {"$", ",", ".", "0", "1", "7", "-", " ", "x"}

Chars(n) == [1..n -> TextChars]

\* The texts of the examples, longer than MaxTextLen.
ExampleTexts ==
    {<<"$", "1", ",", "2", "3", "4", ".", "5", "6">>,
     <<"€", "9", "9">>,
     <<"£", "1", ",", "0", "0", "0">>,
     <<"n", "o", " ", "p", "r", "i", "c", "e", " ", "h", "e", "r", "e">>}

TextInputs == UNION {Chars(n) : n \in 0..MaxTextLen} \cup ExampleTexts

TextInit ==
    /\ doc = MissingDoc
    /\ products = EmptyStore
    /\ \E text \in TextInputs :
           last = [op |-> "text", text |-> text, done |-> FALSE,
                   price |-> None]

ExtractText ==
    /\ last.op = "text"
    /\ ~last.done
    /\ last' = [last EXCEPT !.done = TRUE,
                   !.price = _extract_price_from_text(last.text)]
    /\ UNCHANGED <<doc, products>>

TextNext == ExtractText

SpecText == TextInit /\ [][TextNext]_vars

\* ---- _scrape_amazon, _scrape_generic ----------------------------------
\* A parsed page (soup) is the sequence of its elements in document order;
\* an element has a tag, a class, an id ("" when it has none) and the text
\* get_text() returns for it.  A selector names a tag, a class, an id, a
\* substring of the class attribute and a substring of the id attribute, ""
\* standing for no condition.
Selector(tag, class, id, class_has, id_has) ==
    [tag |-> tag, class |-> class, id |-> id,
     class_has |-> class_has, id_has |-> id_has]

\* The attribute values of the model that contain "price", and "Price".
HavePrice ==
    {"price", "a-price-whole", "a-color-price", "priceblock_ourprice",
     "priceblock_dealprice"}

HavePriceCapital == {"ProductPrice"}

\* sub in value, for the two substrings the selectors ask for.
Contains(value, sub) ==
    IF sub = "price" THEN value \in HavePrice
    ELSE IF sub = "Price" THEN value \in HavePriceCapital
    ELSE FALSE

Matches(selector, element) ==
    /\ selector.tag # "" => element.tag = selector.tag
    /\ selector.class # "" => element.class = selector.class
    /\ selector.id # "" => element.id = selector.id
    /\ selector.class_has # ""
           => Contains(element.class, selector.class_has)
    /\ selector.id_has # "" => Contains(element.id, selector.id_has)

\* soup.select(selector)
select(soup, selector) == SelectSeq(soup, LAMBDA e : Matches(selector, e))

AmazonSelectors ==
    <<Selector("span", "a-price-whole", "", "", ""),
      Selector("span", "a-offscreen", "", "", ""),
      Selector("span", "", "priceblock_ourprice", "", ""),
      Selector("span", "", "priceblock_dealprice", "", ""),
      Selector("span", "a-color-price", "", "", "")>>

GenericSelectors ==
    <<Selector("", "", "", "price", ""),
      Selector("", "", "", "", "price"),
      Selector("", "", "", "Price", ""),
      Selector("span", "price", "", "", ""),
      Selector("div", "price", "", "", ""),
      Selector("p", "price", "", "", "")>>

\* The inner loop: the first price the texts of elements yield, or None.
RECURSIVE ScanElements(_)
ScanElements(elements) ==
    IF elements = <<>> THEN None
    ELSE LET price == _extract_price_from_text(Strip(Head(elements).text))
         IN IF price # None THEN price ELSE ScanElements(Tail(elements))

\* The outer loop over the selectors.
RECURSIVE ScanSelectors(_, _)
ScanSelectors(soup, selectors) ==
    IF selectors = <<>> THEN None
    ELSE LET price == ScanElements(select(soup, Head(selectors)))
         IN IF price # None THEN price
            ELSE ScanSelectors(soup, Tail(selectors))

_scrape_amazon(soup) == ScanSelectors(soup, AmazonSelectors)

\* The loops of _scrape_generic nested the other way round: every element
\* in document order, and for each the selectors.
RECURSIVE ScanDocument(_, _)
ScanDocument(soup, selectors) ==
    IF soup = <<>> THEN None
    ELSE LET e == Head(soup)
             price == IF \E k \in 1..Len(selectors) : Matches(selectors[k], e)
                      THEN _extract_price_from_text(Strip(e.text))
                      ELSE None
         IN IF price # None THEN price
            ELSE ScanDocument(Tail(soup), selectors)

scrape_generic_document_order(soup) == ScanDocument(soup, GenericSelectors)

_scrape_generic(soup) == ScanSelectors(soup, GenericSelectors)

\* "amazon" in url.lower(), for the URLs of the model.
PageURLs == {"https://www.Amazon.com/dp/1", "https://shop.example/1"}

IsAmazon(url) == url = "https://www.Amazon.com/dp/1"

\* The try block of _scrape_price once the page is fetched and parsed.
ScrapeSoup(url, soup) ==
    IF IsAmazon(url) THEN _scrape_amazon(soup) ELSE _scrape_generic(soup)

\* ---- extraction from a page on its own --------------------------------
ElementShapes ==
    {[tag |-> "span", class |-> "a-price-whole", id |-> ""],
     [tag |-> "span", class |-> "a-offscreen", id |-> ""],
     [tag |-> "span", class |-> "", id |-> "priceblock_ourprice"],
     [tag |-> "span", class |-> "", id |-> "priceblock_dealprice"],
     [tag |-> "span", class |-> "a-color-price", id |-> ""],
     [tag |-> "div", class |-> "price", id |-> ""],
     [tag |-> "p", class |-> "", id |-> "price"],
     [tag |-> "div", class |-> "ProductPrice", id |-> ""],
     [tag |-> "div", class |-> "title", id |-> ""]}

ElementTexts == {<<" ", "$", "1">>, <<"7", ".", "1">>, <<"x">>}

Elements ==
    {[tag |-> sh.tag, class |-> sh.class, id |-> sh.id, text |-> t] :
         sh \in ElementShapes, t \in ElementTexts}

Soups == UNION {[1..n -> Elements] : n \in 0..MaxElements}

ScrapeInit ==
    /\ doc = MissingDoc
    /\ products = EmptyStore
    /\ \E url \in PageURLs, soup \in Soups :
           last = [op |-> "scrape", url |-> url, soup |-> soup,
                   done |-> FALSE, price |-> None]

ScrapePage ==
    /\ last.op = "scrape"
    /\ ~last.done
    /\ last' = [last EXCEPT !.done = TRUE,
                   !.price = ScrapeSoup(last.url, last.soup)]
    /\ UNCHANGED <<doc, products>>

ScrapeNext == ScrapePage

SpecScrape == ScrapeInit /\ [][ScrapeNext]_vars

\* ======================================================================
\* Properties
\* ======================================================================
Obs(price) == [date |-> Timestamp, price |-> price]

Stored == _load_data(doc).products

IsPrefix(s, t) == Len(s) <= Len(t) /\ SubSeq(t, 1, Len(s)) = s

\* Every product of d is a product of e, at the same place in the dict
\* order, with the same URL and with d's observations as the first
\* observations of e's.
Extends(d, e) ==
    /\ Len(d) <= Len(e)
    /\ \A i \in 1..Len(d) :
           /\ e[i].key = d[i].key
           /\ e[i].value.name = d[i].value.name
           /\ e[i].value.url = d[i].value.url
           /\ IsPrefix(d[i].value.prices, e[i].value.prices)

Succeeded(r) == r.kind = "found"

\* C1: add with a name that is already tracked leaves the in-memory store and
\* the persisted document exactly as they were, and returns False without
\* terminating abnormally.
C1_DuplicateAddNoMutation ==
    [][(last'.op = "add" /\ last'.name \in Keys(Stored))
          => /\ doc' = doc
             /\ products' = Stored
             /\ last'.added = FALSE
             /\ last'.exit = "ok"]_vars

\* An add of a tracked name was made and reported failure.
C1_Witness ==
    /\ last.op = "add"
    /\ last.name \in Keys(last.loaded)
    /\ Get(last.loaded, last.name).prices # <<>>
    /\ last.url # Get(last.loaded, last.name).url
    /\ ~last.added

\* C2: one check over N products of which M succeed extraction returns M,
\* appends exactly one observation (the extracted price) to each of the M
\* products and leaves the other N-M observation sequences as they were.
C2_CheckAllAppendsM ==
    last.op = "check" =>
        LET N == Len(last.loaded)
            M == Cardinality({i \in 1..N : Succeeded(last.responses[i])})
        IN /\ last.exit = "ok"
           /\ last.updated = M
           /\ Len(products) = N
           /\ \A i \in 1..N :
                  /\ products[i].key = last.loaded[i].key
                  /\ products[i].value.prices =
                         IF Succeeded(last.responses[i])
                         THEN Append(last.loaded[i].value.prices,
                                     Obs(last.responses[i].price))
                         ELSE last.loaded[i].value.prices
           /\ Stored = products

\* C3: add with a name that is not tracked returns True and appends to the
\* store the product with the given URL, holding the one extracted price
\* when extraction succeeded and no observation when it was absent or the
\* fetch failed; every other product is untouched, and the store is saved.
C3_AddNewCreates ==
    [][(last'.op = "add" /\ last'.name \notin Keys(Stored))
          => LET r == last'.responses[1] IN
             /\ last'.added = TRUE
             /\ last'.exit = "ok"
             /\ products' =
                    Append(Stored,
                        [key |-> last'.name,
                         value |-> [name |-> last'.name, url |-> last'.url,
                                    prices |-> IF Succeeded(r)
                                               THEN <<Obs(r.price)>>
                                               ELSE <<>>]])
             /\ _load_data(doc').products = products']_vars

\* A second product was added although its page yielded no price.
C3_Witness ==
    /\ last.op = "add"
    /\ last.added
    /\ last.loaded # EmptyStore
    /\ ~Succeeded(last.responses[1])
    /\ Get(products, last.name).prices = <<>>

\* C4: check runs to completion whatever the store and the outcomes are: it
\* does not terminate abnormally and the store it leaves is persisted.
C4_CheckAllCompletes ==
    last.op = "check" => (last.exit = "ok" /\ Stored = products)

\* C5: no invocation removes a product, changes a URL, or removes, reorders
\* or modifies an observation: the store an invocation ends with, in memory
\* and in the document, extends the store it loaded.  Every invocation loads
\* the document the one before it left, so the store of an earlier state is,
\* product by product, a prefix of the store of every later state.
C5_AppendOnly ==
    /\ Extends(last.loaded, products)
    /\ Extends(last.loaded, Stored)

\* A check appended to a product that already had an observation, next to a
\* product it left alone.
C5_Witness ==
    /\ last.op = "check"
    /\ last.exit = "ok"
    /\ \E i, j \in 1..Len(products) :
           /\ last.loaded[i].value.prices # <<>>
           /\ Len(products[i].value.prices)
                  = Len(last.loaded[i].value.prices) + 1
           /\ last.loaded[j].value.prices # <<>>
           /\ products[j] = last.loaded[j]

\* C6: after a completed add or check, loading the persisted document yields
\* the in-memory store: same names in the same order, same URLs, same
\* observation sequences.
C6_RoundTrip ==
    (last.op \in {"add", "check"} /\ last.exit = "ok") => Stored = products

\* A store of two products, both with observations, was saved.
C6_Witness ==
    /\ last.op = "check"
    /\ last.exit = "ok"
    /\ doc.kind = "json"
    /\ Len(products) = 2
    /\ Len(products[1].value.prices) = 2
    /\ products[2].value.prices # <<>>

C8_Trend ==
    last.op = "trend" =>
        LET p == PriceList(products[1].value.prices)
            n == Len(p)
            t == last.trends[1]
            Up(x, y) == IF y > x THEN 1 ELSE 0
            Down(x, y) == IF y < x THEN 1 ELSE 0
            Verdict(ups, downs) ==
                IF ups > downs THEN "Rising"
                ELSE IF downs > ups THEN "Falling"
                ELSE "Stable"
        IN /\ n < 2 => t = "Insufficient data"
           /\ n = 2 => t = Verdict(Up(p[1], p[2]), Down(p[1], p[2]))
           /\ n >= 3 =>
                  t = Verdict(Up(p[n - 2], p[n - 1]) + Up(p[n - 1], p[n]),
                              Down(p[n - 2], p[n - 1]) + Down(p[n - 1], p[n]))
           /\ p = <<10, 9, 8>> => t = "Falling"
           /\ p = <<10, 11, 9, 11>> => t = "Stable"

\* The trend of [10,11,9,11] was computed.
C8_Witness ==
    /\ last.op = "trend"
    /\ PriceList(products[1].value.prices) = <<10, 11, 9, 11>>
    /\ last.trends = <<"Stable">>

\* C9: stats of a product with at least one observation completes: the
\* overall-change percentage is 0 when the first price is 0, the spread
\* percentage is skipped when the minimum price is 0, and the volatility
\* percentage is 0 when the mean is 0 or there is one observation.
C9_StatsCompletes ==
    (/\ last.op = "stats"
     /\ last.name \in Keys(last.loaded)
     /\ Get(last.loaded, last.name).prices # <<>>)
        => /\ last.exit = "ok"
           /\ Len(last.stats) = 1
           /\ LET st == last.stats[1] IN
              /\ st.first_price = 0 => st.total_change_pct[1] = 0
              /\ (st.total = 0 \/ st.n < 2) => st.volatility_pct_sq[1] = 0

CurrencySymbols == {"$", "£", "€"}

HasDigit(text) == \E i \in 1..Len(text) : IsDigit(text[i])

FirstDigit(text) ==
    CHOOSE i \in 1..Len(text) :
        IsDigit(text[i]) /\ \A j \in 1..(i - 1) : ~IsDigit(text[j])

\* The last position of the longest stretch of characters of ok that starts
\* at position i (i - 1 when there is none).
StretchEnd(text, i, ok) ==
    IF \E j \in i..Len(text) : text[j] \notin ok
    THEN (CHOOSE j \in i..Len(text) :
              text[j] \notin ok /\ \A k \in i..(j - 1) : text[k] \in ok) - 1
    ELSE Len(text)

DigitSet == {DigitChars[v] : v \in 1..Len(DigitChars)}

\* The numeral of a text that has a digit: it starts at the first digit,
\* its whole part is the longest stretch of digits and commas from there,
\* and its fraction is a point right after it with the digits that follow.
NumeralOf(text) ==
    LET p == FirstDigit(text)
        q == StretchEnd(text, p, DigitSet \cup {","})
        pointed == q < Len(text) /\ text[q + 1] = "."
        r == IF pointed THEN StretchEnd(text, q + 2, DigitSet) ELSE q
    IN [first |-> p, last |-> r,
        whole |-> SelectSeq(SubSeq(text, p, q), IsDigit),
        fraction |-> IF pointed THEN SubSeq(text, q + 2, r) ELSE <<>>]

\* The text is a decimal numeral, thousands separators and a currency
\* symbol included, among words: nothing glued to its end is taken out by
\* the cleaning, and no point stands right before it.
IsPriceText(text) ==
    /\ HasDigit(text)
    /\ LET nm == NumeralOf(text) IN
       /\ nm.last < Len(text)
              => text[nm.last + 1] \notin CurrencySymbols \cup {","}
       /\ nm.first > 1 => text[nm.first - 1] # "."

\* The value of digits d[1..n] read from position n down, in units of
\* 10^e.
RECURSIVE Weighted(_, _, _)
Weighted(d, n, e) ==
    IF n = 0 THEN 0
    ELSE DigitValue(d[n]) * Pow10(e) + Weighted(d, n - 1, e + 1)

NumeralUnits(nm) ==
    Weighted(nm.whole, Len(nm.whole), FractionDigits)
    + Weighted(nm.fraction, Len(nm.fraction),
               FractionDigits - Len(nm.fraction))

\* C12: for a price text, extraction yields its numeral with the separators
\* removed ("$1,234.56" gives 1234.56, "€99" gives 99.0); for a text without
\* a digit it yields None; a result is never negative.
C12_ExtractPriceFromText ==
    (last.op = "text" /\ last.done) =>
        /\ IsPriceText(last.text)
               => last.price = NumeralUnits(NumeralOf(last.text))
        /\ ~HasDigit(last.text) <=> last.price = None
        /\ last.price # None => last.price >= 0
        /\ last.text = <<"$", "1", ",", "2", "3", "4", ".", "5", "6">>
               => last.price = 123456 * Pow10(FractionDigits - 2)
        /\ last.text = <<"€", "9", "9">> => last.price = 99 * Unit

\* "$1,234.56" was extracted.
C12_Witness ==
    /\ last.op = "text"
    /\ last.done
    /\ last.text = <<"$", "1", ",", "2", "3", "4", ".", "5", "6">>
    /\ last.price = 123456 * Pow10(FractionDigits - 2)

\* ---- rule precedence ---------------------------------------------------
RulesFor(url) == IF IsAmazon(url) THEN AmazonSelectors ELSE GenericSelectors

FragmentPrice(element) == _extract_price_from_text(Strip(element.text))

\* The fragments that yield a number: <<k, i>> when rule k matches element i
\* and the text of element i parses.
Yielding(url, soup) ==
    {ki \in (1..Len(RulesFor(url))) \X (1..Len(soup)) :
        /\ Matches(RulesFor(url)[ki[1]], soup[ki[2]])
        /\ FragmentPrice(soup[ki[2]]) # None}

\* Rule order first, document order within a rule.
Before(a, b) == a[1] < b[1] \/ (a[1] = b[1] /\ a[2] <= b[2])

\* C11: the result is the number of the first fragment that yields one,
\* rules taken in their fixed order and the fragments of a rule in document
\* order, whatever later rules match; it is None exactly when no fragment of
\* any rule yields a number.
C11_RulePrecedence ==
    (last.op = "scrape" /\ last.done) =>
        LET Y == Yielding(last.url, last.soup) IN
        /\ last.price = None <=> Y = {}
        /\ Y # {} =>
               LET first == CHOOSE a \in Y : \A b \in Y : Before(a, b)
               IN last.price = FragmentPrice(last.soup[first[2]])

\* On a page whose first element is matched by a later rule and whose second
\* element by an earlier one, with different numbers, the second element's
\* number was returned.
C11_Witness ==
    /\ last.op = "scrape"
    /\ last.done
    /\ ~IsAmazon(last.url)
    /\ Len(last.soup) = 2
    /\ Matches(GenericSelectors[2], last.soup[1])
    /\ ~Matches(GenericSelectors[1], last.soup[1])
    /\ Matches(GenericSelectors[1], last.soup[2])
    /\ FragmentPrice(last.soup[1]) # None
    /\ FragmentPrice(last.soup[2]) # None
    /\ FragmentPrice(last.soup[1]) # FragmentPrice(last.soup[2])
    /\ last.price = FragmentPrice(last.soup[2])

====
